---- MODULE Spec2Model ----
(***************************************************************************)
(* PixelCNN image completion (pixelCNN2.ipynb): the masked convolution,    *)
(* the stacked network, the top/bottom split and the notebook session      *)
(* (training cell, inference cell, checkpoint cell).                       *)
(*                                                                         *)
(* Numbers.  Intensities and activations are fixed-point integers in units *)
(* of 1/One (One stands for the float 1.0); weights are integers; a bias   *)
(* is in the same fixed-point unit as the activation it is added to.       *)
(* Tensors are indexed from 0 as in the source:                            *)
(*   grid[r][c], sample[ch][r][c], batch[n][ch][r][c],                     *)
(*   weight[o][i][kh][kw], bias[o].                                        *)
(***************************************************************************)
EXTENDS Integers, Sequences, FiniteSets, TLC

\* ------------------------------------------------------------------ sizes

\* The fixed-point representation of 1.0 (ToTensor scales pixels to [0,1]).
One == 1000

\* Rows above the split: split_top_bottom cuts at row 14 of 28 (scaled down).
SplitRow == 2

\* Image height: twice the split row (28 = 2 * 14 for the dataset).
ImgH == 2 * SplitRow

\* Image width (28 for the dataset, scaled down).
ImgW == 3

\* Kernels have odd sizes 2k+1 for k in 0..MaxHalf.
MaxHalf == 1

\* hidden_channels of PixelCNN (64 in the source, scaled down).
HiddenChannels == 2

\* Samples per mini-batch (64 in the source, scaled down).
BatchSize == 2

\* kernel_size of the session's PixelCNN() (default 7 in the source, scaled down).
DefaultKernelSize == 3

\* num_layers of the session's PixelCNN() (default 6 in the source, scaled down).
DefaultNumLayers == 3

\* PixelCNN depths num_layers range over 1..MaxLayers.
MaxLayers == 3

\* epochs of the training loop (200 in the source, scaled down).
Epochs == 2

\* Mini-batches the train loader yields per epoch (len(train_loader), scaled down).
BatchesPerEpoch == 2

\* kernel_size, num_layers, image side and split row as the source has them.
SourceKernelSize == 7

SourceNumLayers == 6

SourceImgSide == 28

SourceSplitRow == 14

\* How many parameter settings (initialisations, optimizer results) are drawn.
NumSeeds == 2

KernelSizes == {2 * k + 1 : k \in 0..MaxHalf}

\* The depths a PixelCNN is built with: num_layers is not validated, and
\* range(num_layers - 2) is empty for every depth below 3.
Depths == 1..MaxLayers

Seeds == 0..(NumSeeds - 1)

MaskTypes == {"A", "B"}

\* ---------------------------------------------------------------- helpers

RECURSIVE SumFn(_, _, _)
\* f[lo] + ... + f[hi]
SumFn(f, lo, hi) == IF lo > hi THEN 0 ELSE f[lo] + SumFn(f, lo + 1, hi)

Rows(g) == Cardinality(DOMAIN g)

Cols(g) == IF Rows(g) = 0 THEN 0 ELSE Cardinality(DOMAIN g[0])

\* Python's True/False used as an integer.
BoolInt(b) == IF b THEN 1 ELSE 0

\* (r1,c1) is strictly before (r2,c2) in raster (row-major) order.
Before(r1, c1, r2, c2) == r1 < r2 \/ (r1 = r2 /\ c1 < c2)

\* The value of a tensor or object that does not exist (yet).
None == <<>>

\* Elementwise a + b of two batch tensors of one shape.
Add4(ta, tb) ==
  [n \in DOMAIN ta |-> [ch \in DOMAIN ta[n] |->
    [r \in DOMAIN ta[n][ch] |-> [c \in DOMAIN ta[n][ch][r] |->
      ta[n][ch][r][c] + tb[n][ch][r][c]]]]]

ZeroGrid(h, w) == [r \in 0..(h - 1) |-> [c \in 0..(w - 1) |-> 0]]

\* ------------------------------------------------------------------ images

Positions == (0..(ImgH - 1)) \X (0..(ImgW - 1))

\* A textured image with intensities 0, 1/2 and 1.
Texture == [r \in 0..(ImgH - 1) |-> [c \in 0..(ImgW - 1) |->
             ((r + 2 * c + 1) % 3) * (One \div 2)]]

\* The picture with pixel p changed: 0 to 1/2, 1/2 to 1, 1 to 0.
Alter(pic, p) == [r \in DOMAIN pic |-> [c \in DOMAIN pic[r] |->
                   IF <<r, c>> = p
                   THEN (pic[r][c] + One \div 2) % (One + One \div 2)
                   ELSE pic[r][c]]]

\* The pictures a batch starts from: a blank one and a textured one.
BasePictures == {ZeroGrid(ImgH, ImgW), Texture}

\* A picture and the pictures that differ from it in one pixel.
Variants(pic) == {pic} \cup {Alter(pic, p) : p \in Positions}

\* The single-channel pictures the data loaders deliver.
Pictures == UNION {Variants(pic) : pic \in BasePictures}

\* A sample with cin channels: the picture, and its negative on odd channels.
Sample(pic, cin) == [ch \in 0..(cin - 1) |->
                      [r \in DOMAIN pic |-> [c \in DOMAIN pic[r] |->
                        IF ch % 2 = 0 THEN pic[r][c] ELSE One - pic[r][c]]]]

\* Mini-batches of BatchSize samples with cin channels: a picture followed
\* by pictures that differ from it in at most one pixel.
Batches(cin) == {[n \in 0..(BatchSize - 1) |-> Sample(ps[n], cin)] :
                   ps \in {q \in [0..(BatchSize - 1) -> Pictures] :
                            /\ q[0] \in BasePictures
                            /\ \A n \in DOMAIN q : q[n] \in Variants(q[0])}}

\* The mini-batches train_loader yields: textured pictures that differ, if at
\* all, in the first pixel.
TrainBatches == {b \in Batches(1) :
                   /\ b[0][0] = Texture
                   /\ \A n \in DOMAIN b : b[n][0] \in {Texture, Alter(Texture, <<0, 0>>)}}

\* What the first batch of test_loader may be: textured pictures that differ
\* in the last pixel of the top half or in the first pixel of the bottom half.
TestBatches == {b \in Batches(1) :
                  /\ b[0][0] = Texture
                  /\ \A n \in DOMAIN b \ {0} :
                       b[n][0] \in {Alter(Texture, <<SplitRow - 1, ImgW - 1>>),
                                    Alter(Texture, <<SplitRow, 0>>)}}

\* -------------------------------------------------------------- parameters

\* A weight tensor of shape (cout, cin, kh, kw) as initialisation or an
\* optimizer step may leave it: non-zero at every kind of kernel position.
RawWeight(seed, l, cout, cin, kh, kw) ==
  [o \in 0..(cout - 1) |-> [i \in 0..(cin - 1) |->
    [a \in 0..(kh - 1) |-> [b \in 0..(kw - 1) |->
      ((seed + l + o + 2 * i + 3 * a + 2 * b) % 4) - 1]]]]

RawBias(seed, l, cout) ==
  [o \in 0..(cout - 1) |-> (((seed + l + o) % 3) - 1) * (One \div 2)]

\* ------------------------------------------------------------------- masks

\* self.mask[:, :, H // 2 + 1:] = 0, the mutant: rows from the centre row on.
MaskRowsFromCentre(m, H) ==
  [o \in DOMAIN m |-> [i \in DOMAIN m[o] |->
    [a \in DOMAIN m[o][i] |-> [b \in DOMAIN m[o][i][a] |->
      IF a >= H \div 2 THEN 0 ELSE m[o][i][a][b]]]]]

\* self.mask.fill_(1)
MaskFill(cout, cin, H, W) ==
  [o \in 0..(cout - 1) |-> [i \in 0..(cin - 1) |->
    [a \in 0..(H - 1) |-> [b \in 0..(W - 1) |-> 1]]]]

\* The centre-row slice started one column late: the mutant of MaskCentreRow.
MaskCentreRowLate(m, H, W, mask_type) ==
  [o \in DOMAIN m |-> [i \in DOMAIN m[o] |->
    [a \in DOMAIN m[o][i] |-> [b \in DOMAIN m[o][i][a] |->
      IF a = H \div 2 /\ b >= W \div 2 + BoolInt(mask_type = "B") + 1
      THEN 0 ELSE m[o][i][a][b]]]]]

\* self.mask[:, :, H // 2, W // 2 + (mask_type == 'B'):] = 0
MaskCentreRow(m, H, W, mask_type) ==
  [o \in DOMAIN m |-> [i \in DOMAIN m[o] |->
    [a \in DOMAIN m[o][i] |-> [b \in DOMAIN m[o][i][a] |->
      IF a = H \div 2 /\ b >= W \div 2 + BoolInt(mask_type = "B")
      THEN 0 ELSE m[o][i][a][b]]]]]

\* self.mask[:, :, H // 2 + 1:] = 0
MaskRowsBelow(m, H) ==
  [o \in DOMAIN m |-> [i \in DOMAIN m[o] |->
    [a \in DOMAIN m[o][i] |-> [b \in DOMAIN m[o][i][a] |->
      IF a >= H \div 2 + 1 THEN 0 ELSE m[o][i][a][b]]]]]

\* The mask buffer MaskedConv2d.__init__ registers.
BuildMask(cout, cin, H, W, mask_type) ==
  MaskRowsBelow(MaskCentreRow(MaskFill(cout, cin, H, W), H, W, mask_type), H)

\* ------------------------------------------------------------ convolution

\* Zero padding: the input outside the grid reads as 0.
Padded(g, r, c) == IF r \in DOMAIN g /\ c \in DOMAIN g[r] THEN g[r][c] ELSE 0

\* nn.Conv2d on one sample, stride 1, padding (ph, pw): a cross-correlation.
Conv2d(x, weight, bias, ph, pw) ==
  LET cin == Cardinality(DOMAIN x)
      kh  == Rows(weight[0][0])
      kw  == Cols(weight[0][0])
      oh  == Rows(x[0]) + 2 * ph - kh + 1
      ow  == Cols(x[0]) + 2 * pw - kw + 1
  IN [o \in DOMAIN weight |-> [r \in 0..(oh - 1) |-> [c \in 0..(ow - 1) |->
       bias[o] +
       SumFn([i \in 0..(cin - 1) |->
         SumFn([a \in 0..(kh - 1) |->
           SumFn([b \in 0..(kw - 1) |->
             weight[o][i][a][b] * Padded(x[i], r + a - ph, c + b - pw)],
             0, kw - 1)], 0, kh - 1)], 0, cin - 1)]]]

\* self.weight.data *= self.mask, dropped: the mutant of ApplyMask.
ApplyMaskSkipped(weight, mask) == weight

\* self.weight.data *= self.mask
ApplyMask(weight, mask) ==
  [o \in DOMAIN weight |-> [i \in DOMAIN weight[o] |->
    [a \in DOMAIN weight[o][i] |-> [b \in DOMAIN weight[o][i][a] |->
      weight[o][i][a][b] * mask[o][i][a][b]]]]]

\* The padding argument left out (nn.Conv2d's default, 0): the mutant of Padding.
PaddingNone(kernel_size) == 0

\* padding=kernel_size//2
Padding(kernel_size) == kernel_size \div 2

\* MaskedConv2d(cin, cout, (H, W), padding=(H//2, W//2), mask_type=...)
\* with the parameters its base class initialises.
MaskedConv2d(cin, cout, H, W, mask_type, seed, l) ==
  [kind      |-> "masked",
   mask_type |-> mask_type,
   H         |-> H,
   W         |-> W,
   ph        |-> Padding(H),
   pw        |-> Padding(W),
   weight    |-> RawWeight(seed, l, cout, cin, H, W),
   bias      |-> RawBias(seed, l, cout),
   mask      |-> BuildMask(cout, cin, H, W, mask_type)]

\* MaskedConv2d.forward without its first statement: the mutant of MaskedInPlace.
MaskedInPlaceSkipped(layer) == layer

\* The layer after MaskedConv2d.forward: its weights are masked in place.
MaskedInPlace(layer) == [layer EXCEPT !.weight = ApplyMask(layer.weight, layer.mask)]

\* MaskedConv2d.forward convolving before it masks (the two statements of
\* forward swapped): the mutant of MaskedForward.
MaskedForwardUnmasked(layer, batch) ==
  [n \in DOMAIN batch |->
     Conv2d(batch[n], layer.weight, layer.bias, layer.ph, layer.pw)]

\* What MaskedConv2d.forward returns for a batch.
MaskedForward(layer, batch) ==
  [n \in DOMAIN batch |->
     Conv2d(batch[n], MaskedInPlace(layer).weight, layer.bias, layer.ph, layer.pw)]

\* ------------------------------------------------------------- the network

\* The mask type of the first layer, the mutant: relaxed.
FirstMaskTypeRelaxed == "B"

\* The mask type of the first layer of PixelCNN.
FirstMaskType == "A"

\* nn.ReLU()
ReLU(z) == IF z > 0 THEN z ELSE 0

\* 1/(1 + exp(-k)) in units of 1/One, rounded, for integer k in -8..8.
SigmoidTable(k) ==
  CASE k <= -8 -> 0
    [] k = -7 -> 1
    [] k = -6 -> 2
    [] k = -5 -> 7
    [] k = -4 -> 18
    [] k = -3 -> 47
    [] k = -2 -> 119
    [] k = -1 -> 269
    [] k = 0 -> 500
    [] k = 1 -> 731
    [] k = 2 -> 881
    [] k = 3 -> 953
    [] k = 4 -> 982
    [] k = 5 -> 993
    [] k = 6 -> 998
    [] k = 7 -> 999
    [] k >= 8 -> 1000

\* return x, without torch.sigmoid: the mutant of Sigmoid.
SigmoidSkipped(z) == z

\* torch.sigmoid on a fixed-point z: the table, interpolated linearly between
\* integers; it saturates to exactly 0 and 1 as floats do.
Sigmoid(z) ==
  LET k == z \div One
      f == z % One
  IN SigmoidTable(k) + ((SigmoidTable(k + 1) - SigmoidTable(k)) * f) \div One

\* nn.ReLU() on a batch.
ReLUBatch(t) ==
  [n \in DOMAIN t |-> [ch \in DOMAIN t[n] |->
    [r \in DOMAIN t[n][ch] |-> [c \in DOMAIN t[n][ch][r] |-> ReLU(t[n][ch][r][c])]]]]

\* torch.sigmoid on a batch.
SigmoidBatch(t) ==
  [n \in DOMAIN t |-> [ch \in DOMAIN t[n] |->
    [r \in DOMAIN t[n][ch] |-> [c \in DOMAIN t[n][ch][r] |-> Sigmoid(t[n][ch][r][c])]]]]

\* nn.Conv2d(cin, cout, 1): the unmasked pointwise layer.
PointwiseConv(cin, cout, seed, l) ==
  [kind   |-> "conv",
   H      |-> 1,
   W      |-> 1,
   ph     |-> 0,
   pw     |-> 0,
   weight |-> RawWeight(seed, l, cout, cin, 1, 1),
   bias   |-> RawBias(seed, l, cout)]

\* PixelCNN.__init__ with the loop run once too few, range(num_layers - 3):
\* the shallow mutant of PixelCNN.
PixelCNNShortLoop(input_channels, hidden_channels, kernel_size, depth, seed) ==
  LET hidden == IF depth > 3 THEN depth - 3 ELSE 0
      len    == 2 + 2 * hidden + 1
  IN [k \in 1..len |->
       IF k = 1
       THEN MaskedConv2d(input_channels, hidden_channels, kernel_size, kernel_size,
                         FirstMaskType, seed, 0)
       ELSE IF k = len
       THEN PointwiseConv(hidden_channels, input_channels, seed, k)
       ELSE IF k % 2 = 0
       THEN [kind |-> "relu"]
       ELSE MaskedConv2d(hidden_channels, hidden_channels, kernel_size, kernel_size,
                         "B", seed, k)]

\* PixelCNN.__init__ with the loop run once too often, range(num_layers - 1):
\* the mutant of PixelCNN.
PixelCNNLongLoop(input_channels, hidden_channels, kernel_size, depth, seed) ==
  LET hidden == IF depth > 1 THEN depth - 1 ELSE 0
      len    == 2 + 2 * hidden + 1
  IN [k \in 1..len |->
       IF k = 1
       THEN MaskedConv2d(input_channels, hidden_channels, kernel_size, kernel_size,
                         FirstMaskType, seed, 0)
       ELSE IF k = len
       THEN PointwiseConv(hidden_channels, input_channels, seed, k)
       ELSE IF k % 2 = 0
       THEN [kind |-> "relu"]
       ELSE MaskedConv2d(hidden_channels, hidden_channels, kernel_size, kernel_size,
                         "B", seed, k)]

\* PixelCNN.__init__: self.layers, a list (here numbered from 1).
PixelCNN(input_channels, hidden_channels, kernel_size, depth, seed) ==
  LET hidden == IF depth > 2 THEN depth - 2 ELSE 0
      len    == 2 + 2 * hidden + 1
  IN [k \in 1..len |->
       IF k = 1
       THEN MaskedConv2d(input_channels, hidden_channels, kernel_size, kernel_size,
                         FirstMaskType, seed, 0)
       ELSE IF k = len
       THEN PointwiseConv(hidden_channels, input_channels, seed, k)
       ELSE IF k % 2 = 0
       THEN [kind |-> "relu"]
       ELSE MaskedConv2d(hidden_channels, hidden_channels, kernel_size, kernel_size,
                         "B", seed, k)]

\* layer(x) for one entry of self.layers.
LayerApply(layer, batch) ==
  CASE layer.kind = "masked" -> MaskedForward(layer, batch)
    [] layer.kind = "relu"   -> ReLUBatch(batch)
    [] layer.kind = "conv"   ->
         [n \in DOMAIN batch |->
            Conv2d(batch[n], layer.weight, layer.bias, layer.ph, layer.pw)]

RECURSIVE Through(_, _, _)
\* for layer in self.layers: x = layer(x), from layer k on.
Through(layers, k, batch) ==
  IF k > Len(layers) THEN batch
  ELSE Through(layers, k + 1, LayerApply(layers[k], batch))

\* What PixelCNN.forward returns.
Forward(layers, batch) == SigmoidBatch(Through(layers, 1, batch))

\* The layers after PixelCNN.forward: every masked layer has masked its weights.
AfterForward(layers) ==
  [k \in DOMAIN layers |->
     IF layers[k].kind = "masked" THEN MaskedInPlace(layers[k]) ELSE layers[k]]

\* optimizer.step() with the masks among the tensors it updates (a mask held as
\* a parameter instead of a buffer): the mutant of AfterStep.
AfterStepMasksToo(layers, seed) ==
  [k \in DOMAIN layers |->
     IF layers[k].kind = "relu" THEN layers[k]
     ELSE IF layers[k].kind = "conv"
     THEN [layers[k] EXCEPT
             !.weight = RawWeight(seed, k, Cardinality(DOMAIN @),
                                  Cardinality(DOMAIN @[0]), layers[k].H, layers[k].W),
             !.bias = RawBias(seed, k, Cardinality(DOMAIN @))]
     ELSE [layers[k] EXCEPT
             !.weight = RawWeight(seed, k, Cardinality(DOMAIN @),
                                  Cardinality(DOMAIN @[0]), layers[k].H, layers[k].W),
             !.bias = RawBias(seed, k, Cardinality(DOMAIN @)),
             !.mask = RawWeight(seed, k, Cardinality(DOMAIN @),
                                Cardinality(DOMAIN @[0]), layers[k].H, layers[k].W)]]

\* The layers after optimizer.step(): every weight and bias is updated, at
\* masked kernel positions too (their gradient does not depend on the weight);
\* masks are buffers and stay.
AfterStep(layers, seed) ==
  [k \in DOMAIN layers |->
     IF layers[k].kind = "relu" THEN layers[k]
     ELSE [layers[k] EXCEPT
             !.weight = RawWeight(seed, k, Cardinality(DOMAIN @),
                                  Cardinality(DOMAIN @[0]), layers[k].H, layers[k].W),
             !.bias = RawBias(seed, k, Cardinality(DOMAIN @))]]

\* ------------------------------------------------------- receptive field

\* The kernel positions <<a, b>> through which a layer's output reads its
\* input: for a masked layer those some channel pair's mask leaves at 1 (the
\* others are multiplied by 0), for a plain convolution all of them.
Taps(layer) ==
  {t \in (0..(layer.H - 1)) \X (0..(layer.W - 1)) :
     layer.kind = "masked" =>
       \E o \in DOMAIN layer.mask : \E i \in DOMAIN layer.mask[o] :
         layer.mask[o][i][t[1]][t[2]] = 1}

\* The positions of a layer's h x w input that its output at the positions P
\* reads: output (r, c) reads input (r + a - ph, c + b - pw) through tap
\* (a, b); outside the grid it reads the zero padding.  ReLU is pointwise.
LayerField(layer, P, h, w) ==
  IF layer.kind = "relu" THEN P
  ELSE {q \in {<<p[1] + t[1] - layer.ph, p[2] + t[2] - layer.pw>> :
                 p \in P, t \in Taps(layer)} :
          q[1] \in 0..(h - 1) /\ q[2] \in 0..(w - 1)}

RECURSIVE Field(_, _, _, _, _)
\* The positions of the network's h x w input that the outputs of layer k at
\* the positions P can depend on (torch.sigmoid after the last layer is
\* pointwise).
Field(layers, k, P, h, w) ==
  IF k = 0 THEN P
  ELSE Field(layers, k - 1, LayerField(layers[k], P, h, w), h, w)

\* ---------------------------------------------------------------- the split

\* The first slice started one row late: the mutant of ZeroRowsFrom.
ZeroRowsFromNext(t, row) ==
  [n \in DOMAIN t |-> [ch \in DOMAIN t[n] |->
    [r \in DOMAIN t[n][ch] |-> [c \in DOMAIN t[n][ch][r] |->
      IF r > row THEN 0 ELSE t[n][ch][r][c]]]]]

\* t[:, :, row:, :] = 0
ZeroRowsFrom(t, row) ==
  [n \in DOMAIN t |-> [ch \in DOMAIN t[n] |->
    [r \in DOMAIN t[n][ch] |-> [c \in DOMAIN t[n][ch][r] |->
      IF r >= row THEN 0 ELSE t[n][ch][r][c]]]]]

\* The second slice ended one row early: the mutant of ZeroRowsBefore.
ZeroRowsBeforeShort(t, row) ==
  [n \in DOMAIN t |-> [ch \in DOMAIN t[n] |->
    [r \in DOMAIN t[n][ch] |-> [c \in DOMAIN t[n][ch][r] |->
      IF r < row - 1 THEN 0 ELSE t[n][ch][r][c]]]]]

\* t[:, :, :row, :] = 0
ZeroRowsBefore(t, row) ==
  [n \in DOMAIN t |-> [ch \in DOMAIN t[n] |->
    [r \in DOMAIN t[n][ch] |-> [c \in DOMAIN t[n][ch][r] |->
      IF r < row THEN 0 ELSE t[n][ch][r][c]]]]]

\* images.clone() without the copy, the mutant of Clone: the result shares the
\* storage of the tensor it was made from.
CloneAliased(storage, fresh) == storage

\* images.clone(): the storage the result lives in; a fresh one, which holds a
\* copy of the values.
Clone(storage, fresh) == fresh

\* split_top_bottom with the second slice one row short: the mutant.
split_top_bottom_short(images) ==
  LET top_ref    == Clone("images", "top_half")
      bottom_ref == Clone("images", "bottom_half")
      cloned == [s \in {"images", "top_half", "bottom_half"} |-> images]
      first  == [cloned EXCEPT ![top_ref] = ZeroRowsFrom(@, SplitRow)]
      second == [first EXCEPT ![bottom_ref] = ZeroRowsBefore(@, SplitRow - 1)]
  IN [images      |-> second["images"],
      top_half    |-> second[top_ref],
      bottom_half |-> second[bottom_ref]]

\* split_top_bottom(images): two clones, each with one half zeroed by a slice
\* assignment into its storage.  The result holds the two tensors returned and,
\* as `images`, the argument as the call leaves it.
split_top_bottom(images) ==
  LET top_ref    == Clone("images", "top_half")
      bottom_ref == Clone("images", "bottom_half")
      cloned == [s \in {"images", "top_half", "bottom_half"} |-> images]
      first  == [cloned EXCEPT ![top_ref] = ZeroRowsFrom(@, SplitRow)]
      second == [first EXCEPT ![bottom_ref] = ZeroRowsBefore(@, SplitRow)]
  IN [images      |-> second["images"],
      top_half    |-> second[top_ref],
      bottom_half |-> second[bottom_ref]]

\* ------------------------------------------------------------- inference

\* completed_images = top_half + predicted_bottom_half
Merge(top, predicted) == Add4(top, predicted)

\* complete_images with the network run on the images themselves: the mutant.
complete_images_whole(m, loader_images) ==
  LET halves    == split_top_bottom(loader_images)
      predicted == Forward(m, halves.images)
  IN [images                |-> halves.images,
      top_half              |-> halves.top_half,
      predicted_bottom_half |-> predicted,
      completed_images      |-> Merge(halves.top_half, predicted),
      model                 |-> AfterForward(m)]

\* complete_images(model, test_loader) on the loader's first batch (the loop
\* breaks after it): the tensors it computes, the batch as the call of
\* split_top_bottom leaves it (shown as "Original"), and the model as the
\* forward pass leaves it.
complete_images(m, loader_images) ==
  LET halves    == split_top_bottom(loader_images)
      predicted == Forward(m, halves.top_half)
  IN [images                |-> halves.images,
      top_half              |-> halves.top_half,
      predicted_bottom_half |-> predicted,
      completed_images      |-> Merge(halves.top_half, predicted),
      model                 |-> AfterForward(m)]

\* ------------------------------------------------------------------ state

VARIABLES
  conv,                  \* a MaskedConv2d layer on its own
  x,                     \* the batch a layer or a network is applied to
  y,                     \* what it returned
  net,                   \* a PixelCNN on its own: its self.layers
  num_layers,            \* the num_layers it was built with
  position,              \* an output position <<r, c>> of the network
  field,                 \* the input positions the output there can depend on
  images,                \* the batch given to split_top_bottom
  top_half,              \* its first result
  bottom_half,           \* its second result
  again_top,             \* split_top_bottom(top_half)
  again_bottom,          \* split_top_bottom(bottom_half)
  names,                 \* the global names assigned in the kernel
  model,                 \* model.layers
  pc,                    \* "idle", or "training" while the training cell runs
  epoch,                 \* the training loop's epoch
  batch_idx,             \* mini-batches done in this epoch
  steps,                 \* optimizer steps applied to `model` since it was built
  outputs,               \* the training loop's last model(top_half)
  train_images,          \* the training loop's `images`: its current mini-batch
  grad,                  \* the mini-batches whose loss gradients are summed in .grad
  test_images,           \* the first batch of test_loader
  ci_top_half,           \* complete_images: its top_half
  predicted_bottom_half, \* complete_images: model(top_half)
  completed_images,      \* complete_images: the merged batch
  checkpoint,            \* the contents of pixelcnn_model.pth
  fault                  \* the exception the last cell ended with

layerVars == <<conv, x, y>>

netVars == <<net, num_layers, position, field>>

splitVars == <<images, top_half, bottom_half, again_top, again_bottom>>

sessionVars == <<names, model, pc, epoch, batch_idx, steps, outputs, train_images, grad,
                 test_images,
                 ci_top_half, predicted_bottom_half, completed_images, checkpoint, fault>>

vars == <<conv, x, y, net, num_layers, position, field, images, top_half, bottom_half, again_top, again_bottom,
          names, model, pc, epoch, batch_idx, steps, outputs, train_images, grad,
          test_images, ci_top_half, predicted_bottom_half, completed_images,
          checkpoint, fault>>

\* The variables of the parts a specification does not run.
LayerIdle == conv = None /\ x = None /\ y = None

NetIdle == net = None /\ num_layers = 0 /\ position = None /\ field = None

SplitIdle ==
  /\ images = None /\ top_half = None /\ bottom_half = None
  /\ again_top = None /\ again_bottom = None

SessionIdle ==
  /\ names = {} /\ model = None /\ pc = "idle" /\ epoch = 0
  /\ batch_idx = 0 /\ steps = 0 /\ outputs = None /\ train_images = None
  /\ grad = <<>> /\ test_images = None
  /\ ci_top_half = None /\ predicted_bottom_half = None
  /\ completed_images = None /\ checkpoint = None /\ fault = "none"

\* ------------------------------------------ one masked convolution layer

\* A layer of any odd kernel shape, mask type and channel counts, and a batch.
InitLayer ==
  /\ \E cin \in {1, HiddenChannels}, H \in KernelSizes, W \in KernelSizes,
        t \in MaskTypes, seed \in Seeds :
       /\ conv = MaskedConv2d(cin, HiddenChannels, H, W, t, seed, 0)
       /\ x \in Batches(cin)
  /\ y = None
  /\ NetIdle /\ SplitIdle /\ SessionIdle

\* y = conv(x)
LayerForward ==
  /\ y' = MaskedForward(conv, x)
  /\ conv' = MaskedInPlace(conv)
  /\ UNCHANGED <<x, netVars, splitVars, sessionVars>>

NextLayer == LayerForward

SpecLayer == InitLayer /\ [][NextLayer]_vars

\* ------------------------------------------------------ one PixelCNN network

\* A network of any odd kernel size and any depth from 2 on (the depths that
\* build different networks), and a batch of one-channel images.
InitNet ==
  /\ \E k \in KernelSizes, n \in 2..MaxLayers, seed \in Seeds :
       /\ net = PixelCNN(1, HiddenChannels, k, n, seed)
       /\ num_layers = n
  /\ position = None /\ field = None
  /\ x \in Batches(1)
  /\ y = None
  /\ conv = None /\ SplitIdle /\ SessionIdle

\* y = net(x)
NetForward ==
  /\ y' = Forward(net, x)
  /\ net' = AfterForward(net)
  /\ UNCHANGED <<conv, x, num_layers, position, field, splitVars, sessionVars>>

\* An optimizer step on the network's parameters.
NetStep ==
  /\ y # None
  /\ \E seed \in Seeds : net' = AfterStep(net, seed)
  /\ y' = None
  /\ UNCHANGED <<conv, x, num_layers, position, field, splitVars, sessionVars>>

NextNet == NetForward \/ NetStep

SpecNet == InitNet /\ [][NextNet]_vars

\* ------------------------------------- one PixelCNN module, of any depth

\* A network of any odd kernel size and any depth the constructor accepts,
\* and one of the loaders' batches.
InitModule ==
  /\ \E k \in KernelSizes, n \in Depths, seed \in Seeds :
       /\ net = PixelCNN(1, HiddenChannels, k, n, seed)
       /\ num_layers = n
  /\ position = None /\ field = None
  /\ x \in TrainBatches \cup TestBatches
  /\ y = None
  /\ conv = None /\ SplitIdle /\ SessionIdle

NextModule == NetForward \/ NetStep

SpecModule == InitModule /\ [][NextModule]_vars

\* ------------------------------------- the network of the source's size

\* PixelCNN() as the session builds it.
InitField ==
  /\ \E seed \in Seeds :
       net = PixelCNN(1, HiddenChannels, SourceKernelSize, SourceNumLayers, seed)
  /\ num_layers = SourceNumLayers
  /\ position = None /\ field = None
  /\ conv = None /\ x = None /\ y = None /\ SplitIdle /\ SessionIdle

\* The input positions that model(top_half) can depend on at a bottom-half
\* position of a 28 x 28 image.
Trace ==
  /\ position = None
  /\ \E p \in (SourceSplitRow..(SourceImgSide - 1)) \X (0..(SourceImgSide - 1)) :
       /\ position' = p
       /\ field' = Field(net, Len(net), {p}, SourceImgSide, SourceImgSide)
  /\ UNCHANGED <<layerVars, net, num_layers, splitVars, sessionVars>>

NextField == Trace

SpecField == InitField /\ [][NextField]_vars

\* ------------------------------------------------------------ the split alone

InitSplit ==
  /\ images \in Batches(1)
  /\ top_half = None /\ bottom_half = None
  /\ again_top = None /\ again_bottom = None
  /\ LayerIdle /\ NetIdle /\ SessionIdle

\* top_half, bottom_half = split_top_bottom(images)
Split ==
  /\ top_half' = split_top_bottom(images).top_half
  /\ bottom_half' = split_top_bottom(images).bottom_half
  /\ images' = split_top_bottom(images).images
  /\ UNCHANGED <<again_top, again_bottom, layerVars, netVars, sessionVars>>

\* split_top_bottom(top_half)
SplitTopAgain ==
  /\ top_half # None
  /\ again_top' = split_top_bottom(top_half)
  /\ top_half' = split_top_bottom(top_half).images
  /\ UNCHANGED <<images, bottom_half, again_bottom, layerVars, netVars, sessionVars>>

\* split_top_bottom(bottom_half)
SplitBottomAgain ==
  /\ bottom_half # None
  /\ again_bottom' = split_top_bottom(bottom_half)
  /\ bottom_half' = split_top_bottom(bottom_half).images
  /\ UNCHANGED <<images, top_half, again_top, layerVars, netVars, sessionVars>>

NextSplit == Split \/ SplitTopAgain \/ SplitBottomAgain

SpecSplit == InitSplit /\ [][NextSplit]_vars

\* --------------------------------------------------- complete_images alone

\* The parameter settings complete_images may be given: a network as built,
\* or as an optimizer step leaves it.
InferModels ==
  UNION {{PixelCNN(1, HiddenChannels, DefaultKernelSize, DefaultNumLayers, seed),
          AfterStep(PixelCNN(1, HiddenChannels, DefaultKernelSize, DefaultNumLayers, seed),
                    seed)} : seed \in Seeds}

\* A model and a loader whose first batch is any batch of one-channel images.
InitInfer ==
  /\ model \in InferModels
  /\ test_images \in Batches(1)
  /\ names = {} /\ pc = "idle" /\ epoch = 0 /\ batch_idx = 0 /\ steps = 0
  /\ outputs = None /\ train_images = None /\ grad = <<>>
  /\ ci_top_half = None /\ predicted_bottom_half = None /\ completed_images = None
  /\ checkpoint = None /\ fault = "none"
  /\ LayerIdle /\ NetIdle /\ SplitIdle

\* complete_images(model, test_loader)
Complete ==
  /\ test_images' = complete_images(model, test_images).images
  /\ ci_top_half' = complete_images(model, test_images).top_half
  /\ predicted_bottom_half' = complete_images(model, test_images).predicted_bottom_half
  /\ completed_images' = complete_images(model, test_images).completed_images
  /\ model' = complete_images(model, test_images).model
  /\ UNCHANGED <<names, pc, epoch, batch_idx, steps, outputs, train_images, grad, checkpoint, fault,
                 layerVars, netVars, splitVars>>

NextInfer == Complete

SpecInfer == InitInfer /\ [][NextInfer]_vars

\* ------------------------------------------------------ the notebook session

\* Reading a global name raises NameError when no cell has assigned it.
NameError(name, bound) == name \notin bound

\* A fresh kernel: no cell has run, no name is assigned, no file is written.
Init ==
  /\ names = {} /\ model = None
  /\ pc = "idle" /\ epoch = 0 /\ batch_idx = 0 /\ steps = 0
  /\ outputs = None /\ train_images = None /\ grad = <<>>
  /\ test_images = None
  /\ ci_top_half = None /\ predicted_bottom_half = None /\ completed_images = None
  /\ checkpoint = None
  /\ fault = "none"
  /\ LayerIdle /\ NetIdle /\ SplitIdle

\* The import cell: torch, nn, optim, plt, ... (all under the name "torch").
ImportCell ==
  /\ pc = "idle"
  /\ names' = names \cup {"torch"}
  /\ fault' = "none"
  /\ UNCHANGED <<model, pc, epoch, batch_idx, steps, outputs, train_images, grad, test_images, ci_top_half,
                 predicted_bottom_half, completed_images, checkpoint,
                 layerVars, netVars, splitVars>>

\* The cell defining MaskedConv2d and PixelCNN; its first line reads nn.Conv2d.
ClassCell ==
  /\ pc = "idle"
  /\ IF NameError("torch", names)
     THEN fault' = "NameError" /\ names' = names
     ELSE fault' = "none" /\ names' = names \cup {"PixelCNN"}
  /\ UNCHANGED <<model, pc, epoch, batch_idx, steps, outputs, train_images, grad, test_images, ci_top_half,
                 predicted_bottom_half, completed_images, checkpoint,
                 layerVars, netVars, splitVars>>

\* The data cell: device, the dataset, a random split, the two loaders (all
\* under the name "device"); test_loader is not shuffled, so its first batch
\* is fixed from here on.
DataCell ==
  /\ pc = "idle"
  /\ IF NameError("torch", names)
     THEN fault' = "NameError" /\ names' = names /\ test_images' = test_images
     ELSE /\ fault' = "none"
          /\ names' = names \cup {"device"}
          /\ test_images' \in TestBatches
  /\ UNCHANGED <<model, pc, epoch, batch_idx, steps, outputs, train_images, grad, ci_top_half,
                 predicted_bottom_half, completed_images, checkpoint,
                 layerVars, netVars, splitVars>>

\* The cell that defines split_top_bottom and then tries it on train_dataset[0].
SplitCell ==
  /\ pc = "idle"
  /\ names' = names \cup {"split_top_bottom"}
  /\ fault' = IF NameError("device", names) THEN "NameError" ELSE "none"
  /\ UNCHANGED <<model, pc, epoch, batch_idx, steps, outputs, train_images, grad, test_images, ci_top_half,
                 predicted_bottom_half, completed_images, checkpoint,
                 layerVars, netVars, splitVars>>

\* optimizer.zero_grad(), left out: the mutant of ZeroGrad.
ZeroGradSkipped(g) == g

\* optimizer.zero_grad(): no mini-batch's gradient is left in .grad.
ZeroGrad(g) == <<>>

\* loss.backward(): the gradient of this mini-batch's loss is added to .grad.
Backward(g, batch) == Append(g, batch)

\* The training cell starts: model = PixelCNN().to(device), optimizer,
\* criterion, epochs; it enters the loops.  The new parameters have no gradient.
TrainCellStart ==
  /\ pc = "idle"
  /\ IF NameError("PixelCNN", names) \/ NameError("device", names)
     THEN /\ fault' = "NameError"
          /\ UNCHANGED <<names, model, pc, epoch, batch_idx, steps, grad>>
     ELSE /\ fault' = "none"
          /\ \E seed \in Seeds :
               model' = PixelCNN(1, HiddenChannels, DefaultKernelSize,
                                 DefaultNumLayers, seed)
          /\ names' = names \cup {"model"}
          /\ pc' = "training" /\ epoch' = 0 /\ batch_idx' = 0 /\ steps' = 0
          /\ grad' = <<>>
  /\ UNCHANGED <<outputs, train_images, test_images, ci_top_half, predicted_bottom_half,
                 completed_images, checkpoint, layerVars, netVars, splitVars>>

\* One pass of the inner loop: the loader yields `images`; split, forward,
\* loss, zero_grad, backward, step.  The call of split_top_bottom ends the cell
\* when that name is not assigned.
TrainStep ==
  /\ pc = "training" /\ epoch < Epochs
  /\ \E batch \in TrainBatches :
       /\ train_images' = batch
       /\ IF NameError("split_top_bottom", names)
          THEN /\ fault' = "NameError" /\ pc' = "idle"
               /\ UNCHANGED <<model, epoch, batch_idx, steps, outputs, grad>>
          ELSE /\ outputs' = Forward(model, split_top_bottom(batch).top_half)
               /\ grad' = Backward(ZeroGrad(grad), batch)
               /\ \E seed \in Seeds :
                    model' = AfterStep(AfterForward(model), seed)
               /\ steps' = steps + 1
               /\ IF batch_idx + 1 = BatchesPerEpoch
                  THEN epoch' = epoch + 1 /\ batch_idx' = 0
                  ELSE epoch' = epoch /\ batch_idx' = batch_idx + 1
               /\ UNCHANGED <<pc, fault>>
  /\ UNCHANGED <<names, test_images, ci_top_half, predicted_bottom_half,
                 completed_images, checkpoint, layerVars, netVars, splitVars>>

\* The loops are over: print("Training complete!") and the cell ends.
TrainCellEnd ==
  /\ pc = "training" /\ epoch = Epochs
  /\ pc' = "idle"
  /\ UNCHANGED <<names, model, epoch, batch_idx, steps, outputs, train_images, grad, test_images,
                 ci_top_half, predicted_bottom_half, completed_images, checkpoint,
                 fault, layerVars, netVars, splitVars>>

\* The inference cell: def complete_images, then complete_images(model,
\* test_loader), which handles the first batch only.
InferCell ==
  /\ pc = "idle"
  /\ IF \/ NameError("model", names) \/ NameError("device", names)
        \/ NameError("split_top_bottom", names)
     THEN /\ fault' = "NameError"
          /\ UNCHANGED <<model, test_images, ci_top_half, predicted_bottom_half,
                         completed_images>>
     ELSE /\ fault' = "none"
          /\ test_images' = complete_images(model, test_images).images
          /\ ci_top_half' = complete_images(model, test_images).top_half
          /\ predicted_bottom_half' =
               complete_images(model, test_images).predicted_bottom_half
          /\ completed_images' = complete_images(model, test_images).completed_images
          /\ model' = complete_images(model, test_images).model
  /\ UNCHANGED <<names, pc, epoch, batch_idx, steps, outputs, train_images, grad,
                 checkpoint, layerVars, netVars, splitVars>>

\* The checkpoint cell: torch.save(model.state_dict(), "pixelcnn_model.pth").
SaveCell ==
  /\ pc = "idle"
  /\ IF NameError("torch", names) \/ NameError("model", names)
     THEN fault' = "NameError" /\ checkpoint' = checkpoint
     ELSE fault' = "none" /\ checkpoint' = model
  /\ UNCHANGED <<names, model, pc, epoch, batch_idx, steps, outputs, train_images, grad, test_images,
                 ci_top_half, predicted_bottom_half, completed_images,
                 layerVars, netVars, splitVars>>

Next ==
  \/ ImportCell \/ ClassCell \/ DataCell \/ SplitCell
  \/ TrainCellStart \/ TrainStep \/ TrainCellEnd
  \/ InferCell \/ SaveCell

Spec == Init /\ [][Next]_vars

\* ------------------------------------------------------ the training cell

\* The session when the cells above the training cell have run in notebook
\* order: imports, classes, data, split.
InitTrain ==
  /\ names = {"torch", "PixelCNN", "device", "split_top_bottom"}
  /\ test_images \in TestBatches
  /\ model = None
  /\ pc = "idle" /\ epoch = 0 /\ batch_idx = 0 /\ steps = 0
  /\ outputs = None /\ train_images = None /\ grad = <<>>
  /\ ci_top_half = None /\ predicted_bottom_half = None /\ completed_images = None
  /\ checkpoint = None
  /\ fault = "none"
  /\ LayerIdle /\ NetIdle /\ SplitIdle

NextTrain == TrainCellStart \/ TrainStep \/ TrainCellEnd

SpecTrain == InitTrain /\ [][NextTrain]_vars

\* ================================================================== claims

\* Samples n1 and n2 of the batch agree at every position strictly before (r,c).
AgreeBefore(batch, n1, n2, r, c) ==
  \A ch \in DOMAIN batch[n1] : \A rr \in DOMAIN batch[n1][ch] :
    \A cc \in DOMAIN batch[n1][ch][rr] :
      Before(rr, cc, r, c) => batch[n1][ch][rr][cc] = batch[n2][ch][rr][cc]

\* Samples n1 and n2 of the batch agree at (r,c) and at every position before it.
AgreeUpTo(batch, n1, n2, r, c) ==
  /\ AgreeBefore(batch, n1, n2, r, c)
  /\ \A ch \in DOMAIN batch[n1] : batch[n1][ch][r][c] = batch[n2][ch][r][c]

\* Samples n1 and n2 of the batch differ at (r,c), in some channel.
DifferAt(batch, n1, n2, r, c) ==
  \E ch \in DOMAIN batch[n1] : batch[n1][ch][r][c] # batch[n2][ch][r][c]

\* The kernel positions the claim says are hidden.
Hidden(H, W, mask_type, a, b) ==
  \/ a > H \div 2
  \/ a = H \div 2 /\ b >= W \div 2 + (IF mask_type = "A" THEN 0 ELSE 1)

OtherType(t) == IF t = "A" THEN "B" ELSE "A"

\* C1: for every odd kernel shape and either mask type the mask is binary, is 0
\* exactly at the positions (i,j) with i > H/2, or i = H/2 and j >= W/2 + (0 for
\* A, 1 for B), and 1 elsewhere, the same for every channel pair; the two types
\* differ only at the centre, and a 3x3 strict mask leaves 4 weights visible.
C1_MaskShape ==
  conv # None =>
    LET m == conv.mask
        other == BuildMask(Cardinality(DOMAIN m), Cardinality(DOMAIN m[0]),
                           conv.H, conv.W, OtherType(conv.mask_type))
    IN /\ Rows(m[0][0]) = conv.H /\ Cols(m[0][0]) = conv.W
       /\ \A o \in DOMAIN m : \A i \in DOMAIN m[o] :
            /\ \A a \in 0..(conv.H - 1) : \A b \in 0..(conv.W - 1) :
                 /\ m[o][i][a][b] \in {0, 1}
                 /\ m[o][i][a][b] = 0 <=> Hidden(conv.H, conv.W, conv.mask_type, a, b)
                 /\ m[o][i][a][b] # other[o][i][a][b]
                      <=> (a = conv.H \div 2 /\ b = conv.W \div 2)
            /\ m[o][i] = m[0][0]
            /\ (conv.H = 3 /\ conv.W = 3 /\ conv.mask_type = "A") =>
                 Cardinality({p \in (0..2) \X (0..2) : m[o][i][p[1]][p[2]] = 1}) = 4

\* C1 witness: a 3x3 strict layer with several input channels has run; through
\* every channel pair its mask shows the row above the centre and the pixel
\* left of it, and hides the centre.
C1_Witness ==
  /\ conv # None /\ y # None
  /\ conv.H = 3 /\ conv.W = 3 /\ conv.mask_type = "A"
  /\ Cardinality(DOMAIN conv.mask[0]) = HiddenChannels
  /\ \A o \in DOMAIN conv.mask : \A i \in DOMAIN conv.mask[o] :
       /\ \A b \in 0..2 : conv.mask[o][i][0][b] = 1
       /\ conv.mask[o][i][1][0] = 1 /\ conv.mask[o][i][1][1] = 0

\* C2: the output of a strict (type A) layer at (r,c) is the same for two inputs
\* that agree at every position strictly before (r,c) in raster order.
C2_StrictInvariance ==
  (conv # None /\ y # None /\ conv.mask_type = "A") =>
    \A n1 \in DOMAIN x : \A n2 \in DOMAIN x \ {n1} : \A o \in DOMAIN y[n1] :
      \A r \in DOMAIN y[n1][o] : \A c \in DOMAIN y[n1][o][r] :
        AgreeBefore(x, n1, n2, r, c) => y[n1][o][r][c] = y[n2][o][r][c]

\* C2 witness: a strict 3x3 layer ran on two inputs that differ at one position;
\* its outputs agree there and differ at a later position.
C2_Witness ==
  /\ conv # None /\ y # None /\ conv.mask_type = "A" /\ conv.H = 3 /\ conv.W = 3
  /\ \E r \in 0..(ImgH - 1) : \E c \in 0..(ImgW - 1) :
       /\ DifferAt(x, 0, 1, r, c)
       /\ AgreeBefore(x, 0, 1, r, c)
       /\ \A o \in DOMAIN y[0] : y[0][o][r][c] = y[1][o][r][c]
       /\ \E o \in DOMAIN y[0] : \E r2 \in 0..(ImgH - 1) : \E c2 \in 0..(ImgW - 1) :
            Before(r, c, r2, c2) /\ y[0][o][r2][c2] # y[1][o][r2][c2]

\* C3: the output of a relaxed (type B) layer at (r,c) is the same for two
\* inputs that agree at (r,c) and at every position before it.
C3_RelaxedInvariance ==
  (conv # None /\ y # None /\ conv.mask_type = "B") =>
    \A n1 \in DOMAIN x : \A n2 \in DOMAIN x \ {n1} : \A o \in DOMAIN y[n1] :
      \A r \in DOMAIN y[n1][o] : \A c \in DOMAIN y[n1][o][r] :
        AgreeUpTo(x, n1, n2, r, c) => y[n1][o][r][c] = y[n2][o][r][c]

\* C3 witness: a relaxed layer ran on two inputs that agree before (r,c) and
\* differ at (r,c): its outputs differ at (r,c) itself, and agree before it.
C3_Witness ==
  /\ conv # None /\ y # None /\ conv.mask_type = "B"
  /\ \E r \in 0..(ImgH - 1) : \E c \in 0..(ImgW - 1) :
       /\ DifferAt(x, 0, 1, r, c)
       /\ AgreeBefore(x, 0, 1, r, c)
       /\ \E o \in DOMAIN y[0] : y[0][o][r][c] # y[1][o][r][c]
       /\ \A o \in DOMAIN y[0] : \A r0 \in 0..(ImgH - 1) : \A c0 \in 0..(ImgW - 1) :
            Before(r0, c0, r, c) => y[0][o][r0][c0] = y[1][o][r0][c0]

\* C4: the output of the whole network at (r,c) is the same for two inputs
\* that agree at every position strictly before (r,c), whatever the parameters.
C4_NetworkCausal ==
  (net # None /\ y # None) =>
    \A n1 \in DOMAIN x : \A n2 \in DOMAIN x \ {n1} :
      \A r \in DOMAIN y[n1][0] : \A c \in DOMAIN y[n1][0][r] :
        AgreeBefore(x, n1, n2, r, c) => y[n1][0][r][c] = y[n2][0][r][c]

\* C4 witness: a network with a strict first and a relaxed hidden layer ran on
\* two inputs that differ at one position (r,c); its outputs agree at (r,c) and
\* differ at a later position.
C4_Witness ==
  /\ net # None /\ y # None /\ Len(net) >= 5
  /\ net[1].mask_type = "A" /\ net[3].mask_type = "B" /\ net[1].H >= 3
  /\ \E r \in 0..(ImgH - 1) : \E c \in 0..(ImgW - 1) :
       /\ DifferAt(x, 0, 1, r, c)
       /\ AgreeBefore(x, 0, 1, r, c)
       /\ y[0][0][r][c] = y[1][0][r][c]
       /\ \E r2 \in 0..(ImgH - 1) : \E c2 \in 0..(ImgW - 1) :
            Before(r, c, r2, c2) /\ y[0][0][r2][c2] # y[1][0][r2][c2]

\* The row at the vertical midpoint of a batch's images.
Midpoint(t) == Rows(t[0][0]) \div 2

\* C5: the given half equals the input on every row above the midpoint and is 0
\* from the midpoint down; the target half equals the input from the midpoint
\* down and is 0 above it.
C5_SplitHalves ==
  top_half # None =>
    /\ DOMAIN top_half = DOMAIN images /\ DOMAIN bottom_half = DOMAIN images
    /\ \A n \in DOMAIN images : \A ch \in DOMAIN images[n] :
         \A r \in DOMAIN images[n][ch] : \A c \in DOMAIN images[n][ch][r] :
           /\ top_half[n][ch][r][c] =
                (IF r < Midpoint(images) THEN images[n][ch][r][c] ELSE 0)
           /\ bottom_half[n][ch][r][c] =
                (IF r >= Midpoint(images) THEN images[n][ch][r][c] ELSE 0)

\* C5 witness: a batch with lit pixels right above and right below the midpoint
\* has been split.
C5_Witness ==
  /\ top_half # None
  /\ \E c \in 0..(ImgW - 1) : top_half[0][0][SplitRow - 1][c] > 0
  /\ \E c \in 0..(ImgW - 1) : bottom_half[0][0][SplitRow][c] > 0
  /\ \E c \in 0..(ImgW - 1) : images[0][0][SplitRow][c] > 0 /\ top_half[0][0][SplitRow][c] = 0

\* C6: at every pixel one half carries the original value and the other is 0,
\* which half depends on the row alone, and the halves add up to the original.
C6_SplitPartition ==
  top_half # None =>
    \A n \in DOMAIN images : \A ch \in DOMAIN images[n] :
      \A r \in DOMAIN images[n][ch] :
        /\ \A c \in DOMAIN images[n][ch][r] :
             top_half[n][ch][r][c] + bottom_half[n][ch][r][c] = images[n][ch][r][c]
        /\ \/ \A c \in DOMAIN images[n][ch][r] :
                /\ top_half[n][ch][r][c] = images[n][ch][r][c]
                /\ bottom_half[n][ch][r][c] = 0
           \/ \A c \in DOMAIN images[n][ch][r] :
                /\ bottom_half[n][ch][r][c] = images[n][ch][r][c]
                /\ top_half[n][ch][r][c] = 0

\* C6 witness: after a split, a lit pixel is in the top half only and another
\* lit pixel in the bottom half only.
C6_Witness ==
  /\ top_half # None
  /\ \E r \in 0..(ImgH - 1) : \E c \in 0..(ImgW - 1) :
       top_half[1][0][r][c] > 0 /\ bottom_half[1][0][r][c] = 0
  /\ \E r \in 0..(ImgH - 1) : \E c \in 0..(ImgW - 1) :
       bottom_half[1][0][r][c] > 0 /\ top_half[1][0][r][c] = 0

\* A batch of the same shape, all 0.
ZerosLike(t) ==
  [n \in DOMAIN t |-> [ch \in DOMAIN t[n] |->
    [r \in DOMAIN t[n][ch] |-> [c \in DOMAIN t[n][ch][r] |-> 0]]]]

\* C7: splitting the given half returns the given half and an all-zero target
\* half; splitting the target half returns the target half and an all-zero
\* given half.
C7_SplitIdempotent ==
  /\ again_top # None =>
       /\ again_top.top_half = top_half
       /\ again_top.bottom_half = ZerosLike(top_half)
  /\ again_bottom # None =>
       /\ again_bottom.bottom_half = bottom_half
       /\ again_bottom.top_half = ZerosLike(bottom_half)

\* C7 witness: both halves of a batch, each with a lit pixel, were split again.
C7_Witness ==
  /\ again_top # None /\ again_bottom # None
  /\ top_half # ZerosLike(top_half)
  /\ bottom_half # ZerosLike(bottom_half)
  /\ top_half[0] # top_half[1]

\* C8: every value the network returns lies in [0,1].
C8_OutputRange ==
  (net # None /\ y # None) =>
    \A n \in DOMAIN y : \A ch \in DOMAIN y[n] :
      \A r \in DOMAIN y[n][ch] : \A c \in DOMAIN y[n][ch][r] :
        0 <= y[n][ch][r][c] /\ y[n][ch][r][c] <= One

\* C8 witness: the network returned a batch although one value entering the
\* sigmoid was above 1 and another below 0.
C8_Witness ==
  /\ net # None /\ y # None
  /\ LET z == Through(net, 1, x)
     IN /\ \E n \in DOMAIN z : \E r \in 0..(ImgH - 1) : \E c \in 0..(ImgW - 1) :
             z[n][0][r][c] > One /\ y[n][0][r][c] > One \div 2
        /\ \E n \in DOMAIN z : \E r \in 0..(ImgH - 1) : \E c \in 0..(ImgW - 1) :
             z[n][0][r][c] < 0 /\ y[n][0][r][c] < One \div 2

\* `model` is assigned and its training loop has run every epoch.
Trained == "model" \in names /\ steps = Epochs * BatchesPerEpoch

\* C9: whenever the inference cell or the checkpoint cell runs without a trained
\* model, it ends with a fault and leaves the completed images, the prediction,
\* the checkpoint file and the model as they were.
C9_FailFast ==
  [][((InferCell \/ SaveCell) /\ ~Trained) =>
       /\ fault' = "NameError"
       /\ completed_images' = completed_images
       /\ predicted_bottom_half' = predicted_bottom_half
       /\ checkpoint' = checkpoint
       /\ model' = model]_vars

\* C10: on every top-half row the completed image equals the given top half, and
\* on every bottom-half row it equals the network's prediction.
C10_MergedHalves ==
  completed_images # None =>
    \A n \in DOMAIN completed_images :
      \A r \in DOMAIN completed_images[n][0] :
        \A c \in DOMAIN completed_images[n][0][r] :
          completed_images[n][0][r][c] =
            (IF r < Midpoint(completed_images)
             THEN ci_top_half[n][0][r][c]
             ELSE predicted_bottom_half[n][0][r][c])

\* Samples n1 and n2 of the batch agree on every row above the split.
AgreeOnTop(batch, n1, n2) ==
  \A ch \in DOMAIN batch[n1] : \A r \in DOMAIN batch[n1][ch] :
    r < SplitRow => batch[n1][ch][r] = batch[n2][ch][r]

\* C11: with the same parameters, two test images that agree on every top-half
\* row get the same completed image, whatever their bottom-half pixels are.
C11_TopHalfOnly ==
  completed_images # None =>
    \A n1 \in DOMAIN test_images : \A n2 \in DOMAIN test_images \ {n1} :
      AgreeOnTop(test_images, n1, n2) => completed_images[n1] = completed_images[n2]

\* C11 witness: two test images that differ in a bottom-half pixel only were
\* completed to the same image, by a network whose prediction is not constant.
C11_Witness ==
  /\ completed_images # None
  /\ test_images[0] # test_images[1]
  /\ AgreeOnTop(test_images, 0, 1)
  /\ completed_images[0] = completed_images[1]
  /\ \E r \in 0..(ImgH - 1) : \E c \in 0..(ImgW - 1) :
       predicted_bottom_half[0][0][r][c] # predicted_bottom_half[0][0][0][0]

\* C12: the checkpoint cell writes the file only when the training loop has run
\* all of its epochs, and what it writes are the parameters of that model.
C12_CheckpointAfterTraining ==
  [][(SaveCell /\ fault' = "none") => (Trained /\ checkpoint' = model)]_vars

\* The layers are as some optimizer step leaves them.
StepLeft(layers) == \E seed \in Seeds : layers = AfterStep(layers, seed)

\* The masked layers of a network.
MaskedLayers(layers) == {k \in DOMAIN layers : layers[k].kind = "masked"}

\* C13: after any sequence of forward passes and optimizer steps, every layer's
\* mask is the one its constructor built.
C13_MasksConstant ==
  net # None =>
    \A k \in MaskedLayers(net) :
      net[k].mask = BuildMask(Cardinality(DOMAIN net[k].weight),
                              Cardinality(DOMAIN net[k].weight[0]),
                              net[k].H, net[k].W, net[k].mask_type)

\* C13 witness: an optimizer step has just rewritten every weight of a network
\* with a 3x3 strict layer, the weight under the centre of its mask included;
\* the mask still hides the centre.
C13_Witness ==
  /\ net # None /\ y = None /\ StepLeft(net)
  /\ net[1].H = 3 /\ net[1].mask_type = "A"
  /\ net[1].weight[0][0][1][1] # 0
  /\ net[1].mask[0][0][1][1] = 0 /\ net[1].mask[0][0][0][1] = 1

\* The weight and bias tensors of a network, layer by layer.
Parameters(layers) ==
  [k \in {j \in DOMAIN layers : layers[j].kind # "relu"} |->
     [weight |-> layers[k].weight, bias |-> layers[k].bias]]

\* C14: running the inference cell on the trained model leaves every weight and
\* bias tensor of the model as it was before.
C14_InferenceKeepsParameters ==
  [][(InferCell /\ Trained) => Parameters(model') = Parameters(model)]_vars

\* A layer applied with the weights it holds, as a plain nn.Conv2d would.
PlainApply(layer, batch) ==
  IF layer.kind = "relu" THEN ReLUBatch(batch)
  ELSE [n \in DOMAIN batch |->
          Conv2d(batch[n], layer.weight, layer.bias, layer.ph, layer.pw)]

RECURSIVE PlainThrough(_, _, _)
PlainThrough(layers, k, batch) ==
  IF k > Len(layers) THEN batch
  ELSE PlainThrough(layers, k + 1, PlainApply(layers[k], batch))

\* C15: whatever optimizer steps and forward passes came before, the weights a
\* forward pass has used (the ones each masked layer holds after it, with which
\* plain convolutions give the output it returned) are 0 wherever the layer's
\* mask is 0.
C15_UsedWeightsMasked ==
  (net # None /\ y # None) =>
    /\ \A k \in MaskedLayers(net) :
         \A o \in DOMAIN net[k].weight : \A i \in DOMAIN net[k].weight[o] :
           \A a \in 0..(net[k].H - 1) : \A b \in 0..(net[k].W - 1) :
             net[k].mask[o][i][a][b] = 0 => net[k].weight[o][i][a][b] = 0
    /\ y = SigmoidBatch(PlainThrough(net, 1, x))

\* C15 witness: the forward pass came right after an optimizer step that had
\* left a non-zero weight under the mask of the 3x3 first layer; the layer
\* holds the masked weights of that step.
C15_Witness ==
  /\ net # None /\ y # None /\ net[1].H = 3
  /\ \E seed \in Seeds :
       /\ net = AfterForward(AfterStep(net, seed))
       /\ AfterStep(net, seed)[1].weight[0][0][2][2] # 0
       /\ net[1].weight[0][0][2][2] = 0

ConvLayers(layers) == {k \in DOMAIN layers : layers[k].kind \in {"masked", "conv"}}

\* One strict masked layer first, then relaxed masked layers only, a
\* nonlinearity after every masked layer and nowhere else, and one unmasked
\* 1x1 convolution last.
Ordered(layers) ==
  /\ layers[1].kind = "masked" /\ layers[1].mask_type = "A"
  /\ layers[Len(layers)].kind = "conv"
  /\ layers[Len(layers)].H = 1 /\ layers[Len(layers)].W = 1
  /\ \A k \in DOMAIN layers :
       /\ (layers[k].kind = "masked" /\ k > 1) => layers[k].mask_type = "B"
       /\ layers[k].kind = "masked" => layers[k + 1].kind = "relu"
       /\ layers[k].kind = "relu" => layers[k - 1].kind = "masked"
       /\ layers[k].kind = "conv" => k = Len(layers)
  /\ Cardinality({k \in MaskedLayers(layers) : layers[k].mask_type = "A"}) = 1

\* C17 as stated: for every depth num_layers the network has exactly num_layers
\* convolution layers, in the order strict, relaxed ..., pointwise.
C17_LayersAsConfigured ==
  net # None => (Cardinality(ConvLayers(net)) = num_layers /\ Ordered(net))

\* C17 amended: for every depth num_layers of at least 2 the network has exactly
\* num_layers convolution layers, in the order strict, relaxed ..., pointwise.
C17_LayersFromDepthTwo ==
  (net # None /\ num_layers >= 2) =>
    (Cardinality(ConvLayers(net)) = num_layers /\ Ordered(net))

\* C17 witness: a network of depth 3 or more, which has a relaxed layer between
\* the strict one and the pointwise one, was built and run.
C17_Witness ==
  /\ net # None /\ y # None /\ num_layers >= 3
  /\ Cardinality(ConvLayers(net)) = num_layers
  /\ \E k \in MaskedLayers(net) : k > 1 /\ net[k].mask_type = "B"
  /\ net[Len(net)].kind = "conv"

\* C18: with no optimizer step in between, evaluating the network again on the
\* same input returns the output it returned before and leaves the weights the
\* first evaluation left, also when that first evaluation was the first one
\* after an optimizer step.
C18_ForwardRepeatable ==
  (net # None /\ y # None) =>
    /\ Forward(net, x) = y
    /\ AfterForward(net) = net

\* C18 witness: the network was evaluated right after an optimizer step, and
\* that evaluation changed its weights (the step had left weights under the
\* masks); evaluating it again returns the same output.
C18_Witness ==
  /\ net # None /\ y # None
  /\ \E seed \in Seeds :
       /\ AfterForward(AfterStep(net, seed)) = net
       /\ AfterStep(net, seed) # net
       /\ Forward(AfterStep(net, seed), x) = y
  /\ Forward(net, x) = y
  /\ \E r \in 0..(ImgH - 1) : \E c \in 0..(ImgW - 1) : y[0][0][r][c] # y[1][0][r][c]

\* Batch t holds the values of batch s on every row the predicate keeps
\* (above the split when top is TRUE, from the split down otherwise).
KeepsRows(t, s, top) ==
  \A n \in DOMAIN s : \A ch \in DOMAIN s[n] : \A r \in DOMAIN s[n][ch] :
    ((r < SplitRow) = top) => t[n][ch][r] = s[n][ch][r]

\* C19: a call of split_top_bottom leaves its argument as it was, and the
\* slice assignment into one returned half reaches neither the other half nor
\* the argument: each half still holds the argument's values on its own rows.
C19_SplitKeepsArgument ==
  [][/\ Split =>
          (/\ images' = images
           /\ KeepsRows(top_half', images, TRUE)
           /\ KeepsRows(bottom_half', images, FALSE))
     /\ SplitTopAgain => top_half' = top_half
     /\ SplitBottomAgain => bottom_half' = bottom_half]_vars

\* C19 witness: a batch with lit pixels above and below the split has been
\* split and is still one of the loader's batches, different from both halves.
C19_Witness ==
  /\ top_half # None /\ images \in Batches(1)
  /\ top_half # ZerosLike(images) /\ bottom_half # ZerosLike(images)
  /\ images # top_half /\ images # bottom_half /\ top_half # bottom_half
  /\ again_top # None /\ again_bottom # None

\* Every grid of the batch has h rows and w columns.
HasShape(t, h, w) ==
  \A n \in DOMAIN t : \A ch \in DOMAIN t[n] :
    /\ DOMAIN t[n][ch] = 0..(h - 1)
    /\ \A r \in DOMAIN t[n][ch] : DOMAIN t[n][ch][r] = 0..(w - 1)

\* A batch of one all-zero sample with cin channels of h rows and w columns.
ZeroBatch(cin, h, w) == [n \in {0} |-> [ch \in 0..(cin - 1) |-> ZeroGrid(h, w)]]

\* The heights and widths tried for a layer's input.
Sides == 1..ImgH

\* C20: for every odd kernel size and every input height and width, each masked
\* convolution and the pointwise convolution of the network return grids of the
\* height and width of their input; what the network returns has the samples,
\* the one channel, the rows and the columns of its input, which are those of
\* the target half it is compared with.
C20_ShapePreserved ==
  net # None =>
    /\ \A k \in ConvLayers(net) : \A h \in Sides : \A w \in Sides :
         HasShape(LayerApply(net[k],
                             ZeroBatch(Cardinality(DOMAIN net[k].weight[0]), h, w)),
                  h, w)
    /\ y # None =>
         /\ DOMAIN y = DOMAIN x
         /\ \A n \in DOMAIN y : DOMAIN y[n] = {0}
         /\ HasShape(y, ImgH, ImgW) /\ HasShape(x, ImgH, ImgW)
         /\ HasShape(split_top_bottom(x).bottom_half, ImgH, ImgW)

\* C20 witness: a network of 3x3 masked layers, a relaxed one among them, ran on
\* images that are not square and returned grids of their height and width.
C20_Witness ==
  /\ net # None /\ y # None /\ net[1].H = 3 /\ Len(net) >= 5 /\ net[3].H = 3
  /\ ImgH # ImgW
  /\ HasShape(x, ImgH, ImgW) /\ HasShape(y, ImgH, ImgW)
  /\ HasShape(LayerApply(net[1], x), ImgH, ImgW)

\* C21: every pixel of a completed image is an intensity in [0,1], for every
\* test image with intensities in [0,1] and every parameter setting.
C21_CompletedInRange ==
  completed_images # None =>
    \A n \in DOMAIN completed_images : \A ch \in DOMAIN completed_images[n] :
      \A r \in DOMAIN completed_images[n][ch] :
        \A c \in DOMAIN completed_images[n][ch][r] :
          /\ 0 <= test_images[n][ch][r][c] /\ test_images[n][ch][r][c] <= One
          /\ 0 <= completed_images[n][ch][r][c]
          /\ completed_images[n][ch][r][c] <= One

\* C22: with kernel size 7, 6 layers, 28 x 28 images and the split at row 14,
\* the input positions the output at any bottom-half position can depend on
\* include a top-half position: no predicted bottom-half pixel is computed from
\* zeroed input pixels alone.
C22_FieldReachesTopHalf ==
  position # None =>
    /\ position[1] >= SourceSplitRow
    /\ \E q \in field : q[1] < SourceSplitRow

\* C22 witness: the field of the last pixel of the last row has been traced; it
\* reaches up into the top half, though no further than two rows of it.
C22_Witness ==
  /\ position = <<SourceImgSide - 1, SourceImgSide - 1>>
  /\ \E q \in field : q[1] = SourceSplitRow - 1
  /\ \A q \in field : q[1] >= SourceSplitRow - 2
  /\ \E q \in field : q[1] >= SourceSplitRow

====
